---- MODULE Spec2Model ----
(***************************************************************************)
(* Tool Execution & Lifecycle Engine of cerberus:                          *)
(*   app/drivers/tools/AbstractTool.py          (class AbstractTool)       *)
(*   app/drivers/tools/analyze/AbstractAnalyzeTool.py                      *)
(*                                                                         *)
(* Python strings are sequences of one-character strings, bytes are        *)
(* sequences of numbers 0..255, None is the value None below.  Every       *)
(* operation of the engine is an operator that computes, from the engine   *)
(* and the answers of its collaborators (container runtime, host shell),   *)
(* the calls it issues and its effects; the actions apply these effects.   *)
(***************************************************************************)
EXTENDS Integers, Sequences, FiniteSets, TLC

VARIABLES tool, values, files, lifecycle, heap, cycle, last

vars == <<tool, values, files, lifecycle, heap, cycle, last>>

----------------------------------------------------------------------------
(* Python values *)

\* Python's None: a one-element tuple no string (a sequence of characters) equals
None == <<"None">>

\* truth value of an optional string: `if self.container_id`, `if not dir_path`
Truthy(v) == v # None /\ v # <<>>

\* `sub in s` on strings
Contains(sub, s) ==
    \E i \in 0..(Len(s) - Len(sub)) : SubSeq(s, i + 1, i + Len(sub)) = sub

\* s.split(sep) for a one-character separator
RECURSIVE Split(_, _)
Split(s, sep) ==
    IF \A i \in 1..Len(s) : s[i] # sep
    THEN <<s>>
    ELSE LET k == CHOOSE i \in 1..Len(s) :
                      s[i] = sep /\ \A j \in 1..(i - 1) : s[j] # sep
         IN  <<SubSeq(s, 1, k - 1)>> \o Split(SubSeq(s, k + 1, Len(s)), sep)

\* str.lower() on the alphabet the tool names use
LowerChar(c) == CASE c = "F" -> "f" [] c = "A" -> "a" [] OTHER -> c
Lower(s) == [i \in 1..Len(s) |-> LowerChar(s[i])]

\* bytes.decode("iso-8859-1"): every byte b becomes the code point b, no byte fails
DecodeLatin1(bs) == [i \in 1..Len(bs) |-> bs[i] % 256]

\* os.path.join(a, b) for a relative b
Join(a, b) == IF a = <<>> THEN b
              ELSE IF a[Len(a)] = "/" THEN a \o b ELSE a \o <<"/">> \o b

----------------------------------------------------------------------------
(* Literals of the code *)

\* default of run_command's log_file_path, and the sentinel it tests for
DEV_NULL == <<"/", "d", "e", "v", "/", "n", "u", "l", "l">>

\* the log path run_analysis passes when it creates the output directory
ANALYSIS_LOG == <<"d", "e", "v", "/", "n", "u", "l", "l">>

\* run_command's default dir_path in a container, and update_dir_info's base path
EXPERIMENT == <<"/", "e", "x", "p", "e", "r", "i", "m", "e", "n", "t">>

\* run_analysis's working directory
ROOT == <<"/">>

LATEST == <<"l", "a", "t", "e", "s", "t">>

\* the exit code of a killed process that process_status recovers from
KILLED == 137

----------------------------------------------------------------------------
(* The engines and the harness configuration *)

\* Two engines: 1 is built by AbstractTool.__init__, 2 by AbstractAnalyzeTool.__init__
Engines == {1, 2}

\* the name the concrete tool class gives itself and passes to __init__
ToolName(e) == IF e = 1 THEN <<"F", "o">> ELSE <<"A", "n">>

\* the container the harness builds for an engine
ContainerOf(e) == IF e = 1 THEN <<"c", "1">> ELSE <<"c", "2">>
ContainerIds == {ContainerOf(e) : e \in Engines}

\* AbstractTool.__init__: self.image_name = "cerberus:{}".format(tool_name.lower())
CerberusImage(tool_name) ==
    <<"c", "e", "r", "b", "e", "r", "u", "s", ":">> \o Lower(tool_name)

\* Statistics records are objects: an engine holds a reference to one, and heap
\* gives the content of every object.  ClassStats is the object the class body
\* builds once (`_stats = ToolStats()`); engine e's update_info builds the others.
ClassStats == <<0, 0>>
StatsRefs == {ClassStats} \cup {<<e, g>> : e \in Engines, g \in {1, 2}}

\* the content of a record ToolStats() has just built, and of one an analysis
\* has written its measurements into
ZeroStats == [counters |-> 0, timestamps |-> None]
SomeStats == [counters |-> 1, timestamps |-> <<"t">>]

\* ToolStats(): a new object, one that nothing refers to when it is built.  Engine
\* e's objects are <<e, 1>> and <<e, 2>>; only e ever refers to them, and to one
\* at a time, so the other one is unreferenced.
ToolStats(e, held) == IF held = <<e, 1>> THEN <<e, 2>> ELSE <<e, 1>>

\* the class attributes of AbstractTool, which every instance starts from
ClassDefaults ==
    [ name               |-> <<>>,
      image_name         |-> <<>>,
      container_id       |-> None,
      is_instrument_only |-> FALSE,
      dir_expr           |-> <<>>,
      dir_logs           |-> <<>>,
      dir_inst           |-> <<>>,
      dir_setup          |-> <<>>,
      dir_output         |-> <<>>,
      dir_base_expr      |-> <<>>,
      log_output_path    |-> <<>>,
      stats              |-> ClassStats ]

\* AbstractTool.__init__(tool_name)
AbstractTool_init(tool_name) ==
    [ClassDefaults EXCEPT !.image_name = CerberusImage(tool_name)]

\* AbstractAnalyzeTool.__init__(tool_name): does not call the base constructor
AbstractAnalyzeTool_init(tool_name) == ClassDefaults

\* image references a concrete tool class assigns after the base constructor
\* (None: the tool provides no image; no tag; a registry host with a port)
SubclassImages ==
    { None,
      <<"r">>,
      <<"h", ":", "5", "/", "r", ":", "t">> }

\* the harness-configured experiments directory, values.dir_experiments
DIR_EXPERIMENTS == <<"/", "x">>

\* the engine after construction of a concrete tool: the constructor's result with
\* the name the tool class sets, and possibly an image the tool class assigns
Constructed(e) ==
    LET base == IF e = 1 THEN AbstractTool_init(ToolName(e))
                         ELSE AbstractAnalyzeTool_init(ToolName(e))
    IN  { [base EXCEPT !.name = ToolName(e), !.image_name = img] :
            img \in {base.image_name} \cup SubclassImages }

\* no operation has run yet
NoOp == [op |-> "none", eng |-> 0, outcome |-> "ok", calls |-> <<>>]

----------------------------------------------------------------------------
(* update_info and the directory descriptor *)

\* the keys update_dir_info reads, in the order it reads them, and the attribute
\* each one is assigned to
DirKeys   == <<"experiment", "logs", "instrumentation", "setup", "artifacts">>
DirFields == <<"dir_expr", "dir_logs", "dir_inst", "dir_setup", "dir_output">>

\* a descriptor with both modes fully populated
FullDirInfo ==
    [ container |-> [ experiment      |-> <<"/", "E">>,
                      logs            |-> <<"/", "L">>,
                      instrumentation |-> <<"/", "I">>,
                      setup           |-> <<"/", "S">>,
                      artifacts       |-> <<"/", "O">> ],
      local     |-> [ experiment      |-> <<"/", "e">>,
                      logs            |-> <<"/", "l">>,
                      instrumentation |-> <<"/", "i">>,
                      setup           |-> <<"/", "s">>,
                      artifacts       |-> <<"/", "o">> ] ]

\* the same descriptor with the values of the two modes exchanged
SwappedDirInfo ==
    [container |-> FullDirInfo.local, local |-> FullDirInfo.container]

\* the entry r of one mode without key k
Lacking(r, k) ==
    CASE k = "experiment" ->
           [logs |-> r.logs, instrumentation |-> r.instrumentation,
            setup |-> r.setup, artifacts |-> r.artifacts]
      [] k = "logs" ->
           [experiment |-> r.experiment, instrumentation |-> r.instrumentation,
            setup |-> r.setup, artifacts |-> r.artifacts]
      [] k = "instrumentation" ->
           [experiment |-> r.experiment, logs |-> r.logs,
            setup |-> r.setup, artifacts |-> r.artifacts]
      [] k = "setup" ->
           [experiment |-> r.experiment, logs |-> r.logs,
            instrumentation |-> r.instrumentation, artifacts |-> r.artifacts]
      [] k = "artifacts" ->
           [experiment |-> r.experiment, logs |-> r.logs,
            instrumentation |-> r.instrumentation, setup |-> r.setup]

\* a descriptor without key k under mode m, and one without mode m altogether
Without(d, m, k) ==
    IF m = "container"
    THEN [container |-> Lacking(d.container, k), local |-> d.local]
    ELSE [container |-> d.container, local |-> Lacking(d.local, k)]
WithoutMode(d, m) ==
    IF m = "container" THEN [local |-> d.local] ELSE [container |-> d.container]

Modes == {"container", "local"}

PartialDirInfos ==
    {Without(FullDirInfo, m, DirKeys[i]) : m \in Modes, i \in 1..Len(DirKeys)}
    \cup {WithoutMode(FullDirInfo, m) : m \in Modes}

\* the descriptors update_info is called with: fully populated ones and partial
\* ones; and a fully populated one with one that has no "local" entry
DirInfos == {FullDirInfo, SwappedDirInfo} \cup PartialDirInfos
FullOrContainerOnly == {FullDirInfo, WithoutMode(FullDirInfo, "local")}

\* update_dir_info reading every key with a default: a key that is not there
\* gives the empty path
update_dir_info_defaults(self, dir_info) ==
    LET mode == IF Truthy(self.container_id) THEN "container" ELSE "local"
        base == IF Truthy(self.container_id) THEN EXPERIMENT ELSE DIR_EXPERIMENTS
        d    == IF mode \in DOMAIN dir_info THEN dir_info[mode] ELSE <<>>
        assigned(f) == {i \in 1..Len(DirKeys) : DirFields[i] = f}
        read(k) == IF k \in DOMAIN d THEN d[k] ELSE <<>>
    IN  [ self |->
            [f \in DOMAIN self |->
               IF assigned(f) # {}
               THEN read(DirKeys[CHOOSE i \in assigned(f) : TRUE])
               ELSE IF f = "dir_base_expr" THEN base ELSE self[f]],
          outcome |-> "ok" ]

\* update_dir_info with one base path for both modes
update_dir_info_one_base(self, dir_info) ==
    LET mode == IF Truthy(self.container_id) THEN "container" ELSE "local"
        base == EXPERIMENT
    IN  IF mode \notin DOMAIN dir_info
        THEN [self |-> self, outcome |-> "KeyError"]
        ELSE LET d       == dir_info[mode]
                 missing == {i \in 1..Len(DirKeys) : DirKeys[i] \notin DOMAIN d}
                 stop    == IF missing = {} THEN Len(DirKeys) + 1
                            ELSE CHOOSE i \in missing : \A j \in missing : i <= j
                 assigned(f) == {i \in 1..(stop - 1) : DirFields[i] = f}
             IN  [ self |->
                     [f \in DOMAIN self |->
                        IF assigned(f) # {}
                        THEN d[DirKeys[CHOOSE i \in assigned(f) : TRUE]]
                        ELSE IF f = "dir_base_expr" /\ missing = {}
                        THEN base
                        ELSE self[f]],
                   outcome |-> IF missing = {} THEN "ok" ELSE "KeyError" ]

\* update_dir_info: the assignments run in order, and a missing key raises KeyError
\* at the assignment that reads it, leaving the earlier assignments in place
update_dir_info(self, dir_info) ==
    LET mode == IF Truthy(self.container_id) THEN "container" ELSE "local"
        base == IF Truthy(self.container_id) THEN EXPERIMENT ELSE DIR_EXPERIMENTS
    IN  IF mode \notin DOMAIN dir_info
        THEN [self |-> self, outcome |-> "KeyError"]
        ELSE LET d       == dir_info[mode]
                 missing == {i \in 1..Len(DirKeys) : DirKeys[i] \notin DOMAIN d}
                 stop    == IF missing = {} THEN Len(DirKeys) + 1
                            ELSE CHOOSE i \in missing : \A j \in missing : i <= j
                 assigned(f) == {i \in 1..(stop - 1) : DirFields[i] = f}
             IN  [ self |->
                     [f \in DOMAIN self |->
                        IF assigned(f) # {}
                        THEN d[DirKeys[CHOOSE i \in assigned(f) : TRUE]]
                        ELSE IF f = "dir_base_expr" /\ missing = {}
                        THEN base
                        ELSE self[f]],
                   outcome |-> IF missing = {} THEN "ok" ELSE "KeyError" ]

\* update_info without its last assignment: the engine keeps the record it holds
update_info_keeps_stats(self, container_id, instrument_only, dir_info, fresh) ==
    update_dir_info([self EXCEPT !.container_id = container_id,
                                 !.is_instrument_only = instrument_only],
                    dir_info)

\* update_info(container_id, instrument_only, dir_info); fresh is the object
\* ToolStats() builds, which is assigned only when update_dir_info has returned
update_info(self, container_id, instrument_only, dir_info, fresh) ==
    LET r == update_dir_info([self EXCEPT !.container_id = container_id,
                                          !.is_instrument_only = instrument_only],
                             dir_info)
    IN  IF r.outcome = "ok"
        THEN [self |-> [r.self EXCEPT !.stats = fresh], outcome |-> "ok"]
        ELSE r

----------------------------------------------------------------------------
(* pre_process / check_tool_exists *)

\* utilities.error_exit(msg): reports the message and ends the tool's run
error_exit == "fatal"

\* identities of image handles; NoImage is pull_image's None
ImageIds == {1, 2}
NoImage == 0

\* the answers of the container runtime and of the host to one check:
\* image_exists, get_image().id, pull_image() (NoImage when the pull fails),
\* and whether shutil.which finds the executable
CheckAnswers ==
    [ exists : BOOLEAN, local : ImageIds, pulled : ImageIds \cup {NoImage},
      which : BOOLEAN ]

\* a check that assigns the comparison's result to the flag
ImagePresent_assign(vals, exists, get, pull) ==
    [calls |-> <<exists, get, pull>>, outcome |-> "ok",
     rebuild_all |-> (pull.image # NoImage /\ get.image # pull.image)]

\* a check that compares the identities without asking whether the pull succeeded
ImagePresent_strict(vals, exists, get, pull) ==
    [calls |-> <<exists, get, pull>>, outcome |-> "ok",
     rebuild_all |-> IF get.image # pull.image THEN TRUE ELSE vals.rebuild_all]

\* the branch of check_tool_exists for an image found locally: pull again and
\* compare the identities
ImagePresent(vals, exists, get, pull) ==
    [calls |-> <<exists, get, pull>>, outcome |-> "ok",
     rebuild_all |-> IF pull.image # NoImage /\ get.image # pull.image
                     THEN TRUE ELSE vals.rebuild_all]

\* a check that goes on when the pull fails
ImageAbsent_goes_on(vals, exists, pull) ==
    [calls |-> <<exists, pull>>, outcome |-> "ok",
     rebuild_all |-> vals.rebuild_all]

\* the branch of check_tool_exists for an image not found locally: pull it
ImageAbsent(vals, exists, pull) ==
    [calls |-> <<exists, pull>>,
     outcome |-> IF pull.image = NoImage THEN error_exit ELSE "ok",
     rebuild_all |-> vals.rebuild_all]

\* check_tool_exists with the rebuild flag it leaves, for the answers `env`
check_tool_exists(self, vals, env) ==
    IF vals.use_container
    THEN IF self.image_name = None
         THEN [calls |-> <<>>, outcome |-> error_exit,
               rebuild_all |-> vals.rebuild_all]
         ELSE
         LET parts == Split(self.image_name, ":") IN
         IF Contains(<<":">>, self.image_name) /\ Len(parts) # 2
         THEN \* repo_name, tag_name = ...split(":") with more than two parts
              [calls |-> <<>>, outcome |-> "ValueError",
               rebuild_all |-> vals.rebuild_all]
         ELSE
         LET repo_name == IF Contains(<<":">>, self.image_name)
                          THEN parts[1] ELSE self.image_name
             tag_name  == IF Contains(<<":">>, self.image_name)
                          THEN parts[2] ELSE LATEST
             exists == [fn |-> "image_exists", repo |-> repo_name,
                        tag |-> tag_name, found |-> env.exists]
             pull   == [fn |-> "pull_image", repo |-> repo_name,
                        tag |-> tag_name, image |-> env.pulled]
             get    == [fn |-> "get_image", repo |-> repo_name,
                        tag |-> tag_name, image |-> env.local]
         IN  IF ~env.exists
             THEN ImageAbsent(vals, exists, pull)
             ELSE ImagePresent(vals, exists, get, pull)
    ELSE [calls |-> <<[fn |-> "which", cmd |-> Lower(self.name),
                       found |-> env.which]>>,
          outcome |-> IF ~env.which THEN error_exit ELSE "ok",
          rebuild_all |-> vals.rebuild_all]

\* pre_process(): nothing but check_tool_exists()
pre_process(self, vals, env) == check_tool_exists(self, vals, env)

----------------------------------------------------------------------------
(* process_status, post_process, clean_up *)

\* the exit codes a command ends with: success, failure, killed
ExitCodes == {0, 1, 2, KILLED}

stop_container(cid)   == [fn |-> "stop_container", cid |-> cid]
start_container(cid)  == [fn |-> "start_container", cid |-> cid]
remove_container(cid) == [fn |-> "remove_container", cid |-> cid]

\* a supervisor that restarts the container after every failure
process_status_every_failure(self, status) ==
    IF status # 0
    THEN [report |-> "warning", code |-> status,
          calls  |-> IF Truthy(self.container_id)
                     THEN <<stop_container(self.container_id),
                            start_container(self.container_id)>>
                     ELSE <<>>]
    ELSE [report |-> "success", code |-> status, calls |-> <<>>]

\* process_status(status): what it reports and the container calls it makes
process_status(self, status) ==
    IF status # 0
    THEN [report |-> "warning", code |-> status,
          calls  |-> IF status = KILLED /\ Truthy(self.container_id)
                     THEN <<stop_container(self.container_id),
                            start_container(self.container_id)>>
                     ELSE <<>>]
    ELSE [report |-> "success", code |-> status, calls |-> <<>>]

\* clean_up(): isdir is the host's answer to os.path.isdir(self.dir_expr)
clean_up(self, isdir) ==
    IF Truthy(self.container_id)
    THEN <<remove_container(self.container_id)>>
    ELSE IF isdir
         THEN <<[fn |-> "execute_command", rm |-> self.dir_expr]>>
         ELSE <<>>

\* post_process with the clean-up ahead of the stop
post_process_purge_first(self, vals, isdir) ==
    (IF vals.is_purge THEN clean_up(self, isdir) ELSE <<>>)
    \o (IF Truthy(self.container_id)
        THEN <<stop_container(self.container_id)>> ELSE <<>>)

\* post_process()
post_process(self, vals, isdir) ==
    (IF Truthy(self.container_id)
     THEN <<stop_container(self.container_id)>> ELSE <<>>)
    \o (IF vals.is_purge THEN clean_up(self, isdir) ELSE <<>>)

----------------------------------------------------------------------------
(* run_command *)

\* " >> {0} 2>&1".format(log_file_path)
REDIRECT == <<" ", ">", ">", " ">>
MERGE    == <<" ", "2", ">", "&", "1">>

\* a redirection that overwrites: " > {0} 2>&1"
Redirection_overwrite(log_file_path) ==
    <<" ", ">", " ">> \o log_file_path \o MERGE

Redirection(log_file_path) == REDIRECT \o log_file_path \o MERGE

append_file(cid, content, file_path) ==
    [fn |-> "append_file", cid |-> cid, content |-> content, path |-> file_path]

\* the answer of container.exec_command or of the host process to one command:
\* the exit code and what the process printed; has_output is FALSE when
\* exec_command returns no output pair
RunAnswer(code, has_output, stdout, stderr) ==
    [exit_code |-> code, has_output |-> has_output,
     stdout |-> stdout, stderr |-> stderr]

\* run_command(command_str, log_file_path, dir_path): the calls it makes and the
\* exit code it returns, for the answer `ans` of the environment it runs in
run_command(self, command_str, log_file_path, dir_path, ans) ==
    IF Truthy(self.container_id)
    THEN LET dir  == IF ~Truthy(dir_path) THEN EXPERIMENT ELSE dir_path
             exec == [fn |-> "exec_command", cid |-> self.container_id,
                      command |-> command_str, dir |-> dir]
             out  == IF ans.has_output /\ ~Contains(DEV_NULL, log_file_path)
                     THEN (IF ans.stdout # <<>>
                           THEN <<append_file(self.container_id,
                                              DecodeLatin1(ans.stdout),
                                              log_file_path)>>
                           ELSE <<>>)
                          \o
                          (IF ans.stderr # <<>>
                           THEN <<append_file(self.container_id,
                                              DecodeLatin1(ans.stderr),
                                              log_file_path)>>
                           ELSE <<>>)
                     ELSE <<>>
         IN  [calls |-> <<exec>> \o out, ret |-> ans.exit_code]
    ELSE LET dir == IF ~Truthy(dir_path) THEN self.dir_expr ELSE dir_path
         IN  [calls |-> <<[fn |-> "execute_command",
                           command |-> command_str \o Redirection(log_file_path),
                           dir |-> dir]>>,
              ret |-> ans.exit_code]

----------------------------------------------------------------------------
(* The file systems of the host and of the containers *)

\* a file is named by the file system it is in (None: the host, else the
\* container identifier) and its path; its content is a sequence of characters
FileKey(fs, path) == <<fs, path>>

\* a relative path names a file under the directory the command runs in
Resolve(dir, path) ==
    IF path # <<>> /\ path[1] = "/" THEN path ELSE Join(dir, path)

\* appending adds the content at the end of the file; a file that is absent or
\* empty is not recorded, and the null device keeps nothing
FsAppend(fsys, fs, path, content) ==
    IF path = DEV_NULL \/ content = <<>>
    THEN fsys
    ELSE LET key == FileKey(fs, path) IN
         [k \in DOMAIN fsys \cup {key} |->
            (IF k \in DOMAIN fsys THEN fsys[k] ELSE <<>>)
            \o (IF k = key THEN content ELSE <<>>)]

\* writing replaces the content of the file
FsWrite(fsys, fs, path, content) ==
    IF path = DEV_NULL
    THEN fsys
    ELSE LET key == FileKey(fs, path)
             keys == IF content = <<>> THEN DOMAIN fsys \ {key}
                     ELSE DOMAIN fsys \cup {key}
         IN  [k \in keys |-> IF k = key THEN content ELSE fsys[k]]

OVERWRITE == <<" ", ">", " ">>

\* the file a command line that ends in " 2>&1" redirects its output to with the
\* operator `mark`: the word after the last `mark`; None when there is none
ShellTarget(line, mark) ==
    LET n     == Len(line)
        body  == SubSeq(line, 1, n - Len(MERGE))
        marks == {i \in 1..(Len(body) - Len(mark) + 1) :
                     SubSeq(body, i, i + Len(mark) - 1) = mark}
    IN  IF n < Len(MERGE) \/ SubSeq(line, n - Len(MERGE) + 1, n) # MERGE
           \/ marks = {}
        THEN None
        ELSE LET m == CHOOSE i \in marks : \A j \in marks : j <= i
             IN  SubSeq(body, m + Len(mark), Len(body))

\* utilities.execute_command(line, directory): the host shell runs the line in
\* the directory; what the process prints is appended to the file after ">>",
\* or replaces the file after ">"
execute_command(fsys, line, dir, ans) ==
    IF ShellTarget(line, REDIRECT) # None
    THEN FsAppend(fsys, None, Resolve(dir, ShellTarget(line, REDIRECT)),
                  ans.stdout \o ans.stderr)
    ELSE IF ShellTarget(line, OVERWRITE) # None
    THEN FsWrite(fsys, None, Resolve(dir, ShellTarget(line, OVERWRITE)),
                 ans.stdout \o ans.stderr)
    ELSE fsys

\* the files after the calls of one run_command, in the order they are made
RECURSIVE FilesAfter(_, _, _)
FilesAfter(fsys, calls, ans) ==
    IF calls = <<>>
    THEN fsys
    ELSE LET c == Head(calls)
             next == IF c.fn = "append_file"
                     THEN FsAppend(fsys, c.cid, c.path, c.content)
                     ELSE IF c.fn = "execute_command"
                     THEN execute_command(fsys, c.command, c.dir, ans)
                     ELSE fsys
         IN  FilesAfter(next, Tail(calls), ans)

----------------------------------------------------------------------------
(* save_artifacts *)

\* one copy: from a directory of the execution environment to a target
\* directory; arg names the dir_info entry the destination was read from
Copy(src, dst, arg) == [src |-> src, dst |-> dst, arg |-> arg]

\* save_artifacts(dir_info): container mode issues one copy_file_from_container
\* call per copy, local mode one execute_command whose line holds one
\* "cp -rf src/* dst" per copy
save_artifacts(self, dir_info) ==
    LET dir_results   == dir_info["results"]
        dir_artifacts == dir_info["artifacts"]
        dir_logs      == dir_info["logs"]
    IN  IF Truthy(self.container_id)
        THEN LET from(c) == [fn |-> "copy_file_from_container",
                             cid |-> self.container_id, copy |-> c]
             IN  << from(Copy(self.dir_output, dir_results, "results")),
                    from(Copy(self.dir_logs, dir_results, "results")),
                    from(Copy(self.dir_output, dir_artifacts, "artifacts")),
                    from(Copy(self.dir_logs, dir_logs, "logs")) >>
        ELSE LET save_command ==
                     <<Copy(self.dir_output, dir_results, "results")>>
                     \o (IF self.dir_logs # <<>>
                         THEN <<Copy(self.dir_logs, dir_results, "results")>>
                         ELSE <<>>)
                     \o (IF dir_artifacts # <<>>
                         THEN <<Copy(self.dir_output, dir_artifacts, "artifacts")>>
                         ELSE <<>>)
                     \o (IF dir_logs # <<>>
                         THEN <<Copy(self.dir_logs, dir_logs, "logs")>>
                         ELSE <<>>)
             IN  <<[fn |-> "execute_command", cps |-> save_command]>>

\* the copies a sequence of save_artifacts calls performs, in order
RECURSIVE Copies(_)
Copies(calls) ==
    IF calls = <<>> THEN <<>>
    ELSE (IF Head(calls).fn = "copy_file_from_container"
          THEN <<Head(calls).copy>>
          ELSE Head(calls).cps)
         \o Copies(Tail(calls))

----------------------------------------------------------------------------
(* AbstractAnalyzeTool.run_analysis *)

\* "{}-{}-{}-output.log".format(conf_id, self.name.lower(), bug_id)
OUTPUT_LOG == <<"-", "o", "u", "t", "p", "u", "t", ".", "l", "o", "g">>
OutputLogName(conf_id, name, bug_id) ==
    conf_id \o <<"-">> \o Lower(name) \o <<"-">> \o bug_id \o OUTPUT_LOG

MKDIR == <<"m", "k", "d", "i", "r", " ">>

\* run_analysis(bug_info, config_info): pre_process, then the output log path is
\* set and the output directory is created; a check that does not return ends it
run_analysis(self, vals, conf_id, bug_id, env, ans) ==
    LET pre == pre_process(self, vals, env) IN
    IF pre.outcome # "ok"
    THEN [self |-> self, calls |-> pre.calls, outcome |-> pre.outcome,
          rebuild_all |-> pre.rebuild_all]
    ELSE LET self1 == [self EXCEPT !.log_output_path =
                          Join(self.dir_logs,
                               OutputLogName(conf_id, self.name, bug_id))]
             run   == run_command(self1, MKDIR \o self1.dir_output,
                                  ANALYSIS_LOG, ROOT, ans)
         IN  [self |-> self1, calls |-> pre.calls \o run.calls,
              outcome |-> "ok", rebuild_all |-> pre.rebuild_all]

----------------------------------------------------------------------------
(* get_output_log_path *)

\* re.compile("(.*-output.log$)").match(file): any characters, then "-output",
\* then one character of any kind but a newline, then "log" at the end
RegexMatch(file) ==
    LET n == Len(file) IN
    /\ n >= Len(OUTPUT_LOG)
    /\ \A i \in 1..Len(OUTPUT_LOG) :
           IF OUTPUT_LOG[i] = "." THEN file[n - Len(OUTPUT_LOG) + i] # "\n"
           ELSE file[n - Len(OUTPUT_LOG) + i] = OUTPUT_LOG[i]

\* os.walk(self.dir_logs) answers with one entry per directory, the walked
\* directory first and its subdirectories after it: sub is the directory's path
\* below the walked one, files the names of its files.  The two loops: every
\* directory is visited, and in each the first file that passes the test sets
\* the path and ends the loop over that directory's files only.
RECURSIVE Scan(_, _, _)
Scan(self, walk, path) ==
    IF walk = <<>> THEN path
    ELSE LET names == Head(walk).files
             hits  == {j \in 1..Len(names) :
                         RegexMatch(names[j]) /\ Contains(self.name, names[j])}
             first == CHOOSE j \in hits : \A k \in hits : j <= k
         IN  Scan(self, Tail(walk),
                  IF hits = {} THEN path ELSE Join(self.dir_logs, names[first]))

\* get_output_log_path()
get_output_log_path(self, walk) ==
    IF self.log_output_path = <<>>
    THEN LET path == Scan(self, walk, self.log_output_path) IN
         [self |-> [self EXCEPT !.log_output_path = path], ret |-> path,
          scanned |-> TRUE]
    ELSE [self |-> self, ret |-> self.log_output_path, scanned |-> FALSE]

----------------------------------------------------------------------------
(* State *)

\* tool[e]     the attributes of engine e
\* values      the process-wide settings of app.core.values the engine reads and writes
\* files       the content of every file of the host and of the containers
\* lifecycle   per container, the last of stop/start/remove issued on it
\* heap        the content of every Statistics record
\* cycle       per engine, the hook the harness called last in the engine's
\*             invocation cycle, or "any" when the harness keeps to no order
\* last        the operation that led to this state: its arguments, the answers of
\*             its collaborators, the calls it made in order, and how it ended

\* a log file with a transcript of earlier commands
LOG == <<"/", "l", "o", "g">>

\* a log file that lies under a directory named dev/null
NESTED_LOG == <<"/", "a">> \o DEV_NULL

\* the transcript already in LOG, on the host and in each container
PRIOR == <<112>>

InitFiles ==
    [k \in {FileKey(fs, LOG) : fs \in {None} \cup ContainerIds} |-> PRIOR]

\* the largest number of characters the files hold together
MaxLogBytes == 5

RECURSIVE TotalLen(_)
TotalLen(fsys) ==
    IF DOMAIN fsys = {} THEN 0
    ELSE LET k == CHOOSE k \in DOMAIN fsys : TRUE
         IN  Len(fsys[k]) + TotalLen([j \in DOMAIN fsys \ {k} |-> fsys[j]])

\* the last stop/start/remove among the calls, per container
RECURSIVE LifecycleAfter(_, _)
LifecycleAfter(lc, calls) ==
    IF calls = <<>> THEN lc
    ELSE LET c == Head(calls)
             next == IF c.fn \in {"stop_container", "start_container",
                                  "remove_container"}
                     THEN [lc EXCEPT ![c.cid] = c.fn]
                     ELSE lc
         IN  LifecycleAfter(next, Tail(calls))

\* the heap once `self._stats = made` has run: the object just built is
\* zero-valued, and the object the engine held, when nothing refers to it any
\* more, is gone
Collected(h, made, held) ==
    [r \in DOMAIN h |->
        IF r = made /\ made # held THEN ZeroStats
        ELSE IF r = held /\ made # held /\ held # ClassStats THEN ZeroStats
        ELSE h[r]]

TypeOK ==
    /\ DOMAIN tool = Engines
    /\ DOMAIN heap = StatsRefs
    /\ values.use_container \in BOOLEAN
    /\ values.rebuild_all \in BOOLEAN
    /\ values.is_purge \in BOOLEAN
    /\ DOMAIN lifecycle = ContainerIds
    /\ last.outcome \in {"ok", "fatal", "KeyError", "ValueError"}

\* the state after construction of the two engines, before any operation
Init ==
    /\ tool \in [Engines -> UNION {Constructed(e) : e \in Engines}]
    /\ \A e \in Engines : tool[e] \in Constructed(e)
    /\ values \in [use_container : BOOLEAN, rebuild_all : {FALSE},
                   is_purge : BOOLEAN]
    /\ files = InitFiles
    /\ lifecycle = [c \in ContainerIds |-> "none"]
    /\ heap = [r \in StatsRefs |-> ZeroStats]
    /\ cycle \in [Engines -> {"any", "start"}]
    /\ last = NoOp

\* as Init, with the image reference the constructor leaves
InitDefault ==
    /\ Init
    /\ \A e \in Engines : cycle[e] = "any"
    /\ tool[1].image_name = CerberusImage(ToolName(1))
    /\ tool[2].image_name = <<>>

----------------------------------------------------------------------------
(* Inputs of the operations *)

Commands == {<<"l", "s">>, <<"i", "d">>}
LogPaths == {DEV_NULL, ANALYSIS_LOG, LOG, NESTED_LOG}
DirPaths == {None, ROOT}

\* what a process prints on stdout and stderr: nothing, or one character each;
\* 233 is no ASCII character
Streams == {<<so, se>> : so \in {<<>>, <<104>>}, se \in {<<>>, <<233>>}}
Silent  == {<< <<>>, <<>> >>}

\* exec_command returns an exit code with no output pair, or with a pair of streams
ContainerAnswers(codes, outs) ==
    {RunAnswer(c, FALSE, <<>>, <<>>) : c \in codes}
    \cup {RunAnswer(c, TRUE, o[1], o[2]) : c \in codes, o \in outs}

\* the host process prints to the file the shell redirects it to
HostAnswers(codes, outs) ==
    {RunAnswer(c, FALSE, o[1], o[2]) : c \in codes, o \in outs}

AnswersFor(self, codes, outs) ==
    IF Truthy(self.container_id) THEN ContainerAnswers(codes, outs)
    ELSE HostAnswers(codes, outs)

\* answers to a check that lets it pass in either mode, and that fail it
CheckPasses == [exists : {TRUE}, local : {1}, pulled : {1, 2}, which : {TRUE}]
CheckFails  == [exists : {FALSE}, local : {1}, pulled : {NoImage}, which : {FALSE}]

\* file names of a logs directory: the output log of engine 1's tool, a second
\* one, the output log of engine 2's tool, a name that differs from an output log's
\* in the character before "log", and a file that is no log
OWN_LOG   == <<"F", "o">> \o OUTPUT_LOG
OWN_LOG_2 == <<"2", "F", "o">> \o OUTPUT_LOG
PEER_LOG  == <<"A", "n">> \o OUTPUT_LOG
NEAR_LOG  == <<"F", "o", "-", "o", "u", "t", "p", "u", "t", "_", "l", "o", "g">>
NOTE      == <<"F", "o", ".", "t">>

\* the files one directory holds
Listings == {<<>>, <<NOTE, OWN_LOG>>, <<OWN_LOG_2, OWN_LOG>>, <<PEER_LOG>>,
             <<NEAR_LOG>>}

\* the name of the subdirectory a logs directory may have
SUBDIR == <<"s">>

\* what os.walk yields: nothing when the directory is not there, else the
\* directory itself, and its subdirectory when it has one
Walks ==
    {<<>>}
    \cup {<<[sub |-> <<>>, files |-> f]>> : f \in Listings}
    \cup {<<[sub |-> <<>>, files |-> f], [sub |-> SUBDIR, files |-> g]>> :
             f \in Listings, g \in Listings}

\* dir_info of save_artifacts: each target directory given or left empty
SaveInfos ==
    [ results : {<<>>, <<"/", "R">>}, artifacts : {<<>>, <<"/", "A">>},
      logs : {<<>>, <<"/", "G">>} ]

----------------------------------------------------------------------------
(* Actions: one per operation of the engine.  The harness calls one operation  *)
(* at a time and takes its result before the next call.                      *)

Idle == last.op = "none"

\* The documented order of one invocation cycle: update_info, pre_process, the
\* run commands with the classification of their exit codes, post_process,
\* save_artifacts, and then a clean-up or the next cycle.  After(op) is the set
\* of hooks op may follow.
After(op) ==
    CASE op = "update_info"    -> {"start", "save_artifacts", "clean_up"}
      [] op = "pre_process"    -> {"update_info"}
      [] op = "run_command"    -> {"pre_process", "run_command", "process_status"}
      [] op = "process_status" -> {"run_command"}
      [] op = "post_process"   -> {"pre_process", "run_command", "process_status"}
      [] op = "save_artifacts" -> {"post_process"}
      [] op = "clean_up"       -> {"save_artifacts"}
      [] OTHER                 -> {}

\* the harness may call op on engine e now
InOrder(e, op) == cycle[e] = "any" \/ cycle[e] \in After(op)

\* the position once op has ended: error_exit and an uncaught exception end the
\* process, and with it the cycle
Called(e, op, outcome) ==
    IF cycle[e] = "any" THEN cycle
    ELSE [cycle EXCEPT ![e] = IF outcome = "ok" THEN op ELSE "exit"]

UpdateInfo(e, flags, infos) ==
    /\ Idle
    /\ InOrder(e, "update_info")
    /\ \E cid \in {None, ContainerOf(e)}, instrument_only \in flags, d \in infos :
        LET r == update_info(tool[e], cid, instrument_only, d,
                             ToolStats(e, tool[e].stats))
        IN
        /\ tool' = [tool EXCEPT ![e] = r.self]
        /\ heap' = Collected(heap, r.self.stats, tool[e].stats)
        /\ last' = [op |-> "update_info", eng |-> e, outcome |-> r.outcome,
                    calls |-> <<>>,
                    args |-> [container_id |-> cid,
                              instrument_only |-> instrument_only,
                              dir_info |-> d],
                    held |-> [ref |-> tool[e].stats,
                              content |-> heap[tool[e].stats]]]
        /\ cycle' = Called(e, "update_info", r.outcome)
        /\ UNCHANGED <<values, files, lifecycle>>

PreProcess(e, envs) ==
    /\ Idle
    /\ InOrder(e, "pre_process")
    /\ \E env \in envs :
        LET r == pre_process(tool[e], values, env) IN
        /\ values' = [values EXCEPT !.rebuild_all = r.rebuild_all]
        /\ last' = [op |-> "pre_process", eng |-> e, outcome |-> r.outcome,
                    calls |-> r.calls, env |-> env,
                    rebuild_before |-> values.rebuild_all]
        /\ cycle' = Called(e, "pre_process", r.outcome)
        /\ UNCHANGED <<tool, files, lifecycle, heap>>

RunCommand(e, cmds, logs, dirs, codes, outs) ==
    /\ Idle
    /\ InOrder(e, "run_command")
    /\ \E command_str \in cmds, log_file_path \in logs, dir_path \in dirs,
          ans \in AnswersFor(tool[e], codes, outs) :
        LET r == run_command(tool[e], command_str, log_file_path, dir_path, ans)
            after == FilesAfter(files, r.calls, ans)
        IN
        /\ TotalLen(after) <= MaxLogBytes
        /\ files' = after
        /\ last' = [op |-> "run_command", eng |-> e, outcome |-> "ok",
                    calls |-> r.calls,
                    args |-> [command_str |-> command_str,
                              log_file_path |-> log_file_path,
                              dir_path |-> dir_path],
                    ans |-> ans, ret |-> r.ret]
        /\ cycle' = Called(e, "run_command", "ok")
        /\ UNCHANGED <<tool, values, lifecycle, heap>>

\* run_analysis is a method of AbstractAnalyzeTool: engine 2
RunAnalysis(e, envs, codes, outs) ==
    /\ Idle
    /\ InOrder(e, "run_command")
    /\ e = 2
    /\ \E env \in envs, ans \in AnswersFor(tool[e], codes, outs) :
        LET r == run_analysis(tool[e], values, <<"1">>, <<"7">>, env, ans)
            after == FilesAfter(files, r.calls, ans)
        IN
        /\ TotalLen(after) <= MaxLogBytes
        /\ tool' = [tool EXCEPT ![e] = r.self]
        /\ values' = [values EXCEPT !.rebuild_all = r.rebuild_all]
        /\ files' = after
        /\ last' = [op |-> "run_analysis", eng |-> e, outcome |-> r.outcome,
                    calls |-> r.calls, env |-> env, ans |-> ans]
        /\ cycle' = Called(e, "run_command", r.outcome)
        /\ UNCHANGED <<lifecycle, heap>>

ProcessStatus(e) ==
    /\ Idle
    /\ InOrder(e, "process_status")
    /\ \E status \in ExitCodes :
        LET r == process_status(tool[e], status) IN
        /\ lifecycle' = LifecycleAfter(lifecycle, r.calls)
        /\ last' = [op |-> "process_status", eng |-> e, outcome |-> "ok",
                    calls |-> r.calls, status |-> status, report |-> r.report]
        /\ cycle' = Called(e, "process_status", "ok")
        /\ UNCHANGED <<tool, values, files, heap>>

PostProcess(e) ==
    /\ Idle
    /\ InOrder(e, "post_process")
    /\ \E isdir \in BOOLEAN :
        LET calls == post_process(tool[e], values, isdir) IN
        /\ lifecycle' = LifecycleAfter(lifecycle, calls)
        /\ last' = [op |-> "post_process", eng |-> e, outcome |-> "ok",
                    calls |-> calls, was |-> lifecycle]
        /\ cycle' = Called(e, "post_process", "ok")
        /\ UNCHANGED <<tool, values, files, heap>>

CleanUp(e) ==
    /\ Idle
    /\ InOrder(e, "clean_up")
    /\ \E isdir \in BOOLEAN :
        LET calls == clean_up(tool[e], isdir) IN
        /\ lifecycle' = LifecycleAfter(lifecycle, calls)
        /\ last' = [op |-> "clean_up", eng |-> e, outcome |-> "ok",
                    calls |-> calls]
        /\ cycle' = Called(e, "clean_up", "ok")
        /\ UNCHANGED <<tool, values, files, heap>>

SaveArtifacts(e, infos) ==
    /\ Idle
    /\ InOrder(e, "save_artifacts")
    /\ \E d \in infos :
        /\ last' = [op |-> "save_artifacts", eng |-> e, outcome |-> "ok",
                    calls |-> save_artifacts(tool[e], d), args |-> d]
        /\ cycle' = Called(e, "save_artifacts", "ok")
        /\ UNCHANGED <<tool, values, files, lifecycle, heap>>

\* os.walk of the empty path, the logs directory before update_info, yields nothing
GetOutputLogPath(e, walks) ==
    /\ Idle
    /\ \E walk \in IF tool[e].dir_logs = <<>> THEN {<<>>} ELSE walks :
        LET r == get_output_log_path(tool[e], walk) IN
        /\ tool' = [tool EXCEPT ![e] = r.self]
        /\ last' = [op |-> "get_output_log_path", eng |-> e, outcome |-> "ok",
                    calls |-> <<>>, walk |-> walk,
                    cached |-> tool[e].log_output_path,
                    ret |-> r.ret, scanned |-> r.scanned]
        /\ UNCHANGED <<values, files, lifecycle, heap, cycle>>

\* analyse_output of a concrete tool: it writes what it measured into the record
\* the engine holds, and returns that record
AnalyseOutput(e) ==
    /\ Idle
    /\ heap' = [heap EXCEPT ![tool[e].stats] = SomeStats]
    /\ last' = [op |-> "analyse_output", eng |-> e, outcome |-> "ok",
                calls |-> <<>>, ret |-> tool[e].stats]
    /\ UNCHANGED <<tool, values, files, lifecycle, cycle>>

\* the operation has ended and the harness has its result
Return ==
    /\ ~Idle
    /\ last' = NoOp
    /\ UNCHANGED <<tool, values, files, lifecycle, heap, cycle>>

----------------------------------------------------------------------------
(* Specifications *)

\* image provisioning: the checks of both engines, for every image reference a
\* tool can hold and both values of values.use_container
NextProvision ==
    \/ \E e \in Engines : PreProcess(e, CheckAnswers)
    \/ Return
InitProvision == Init /\ \A e \in Engines : cycle[e] = "any"
SpecProvision == InitProvision /\ [][NextProvision]_vars

\* command execution: the analysis engine in both modes, with every log path,
\* working directory and output
NextRun ==
    \/ UpdateInfo(2, {FALSE}, {FullDirInfo})
    \/ RunCommand(2, Commands, LogPaths, DirPaths, {0}, Streams)
    \/ RunAnalysis(2, CheckPasses \cup CheckFails, {1}, Streams)
    \/ Return
InitRun == InitDefault /\ values.use_container /\ ~values.is_purge
SpecRun == InitRun /\ [][NextRun]_vars

\* artifact preservation: both engines in both modes, with every target left
\* empty or given
NextSave ==
    \/ \E e \in Engines :
        \/ UpdateInfo(e, BOOLEAN, {FullDirInfo})
        \/ SaveArtifacts(e, SaveInfos)
    \/ Return
SpecSave == InitDefault /\ [][NextSave]_vars

\* the lifecycle of both engines, with one command whose output is discarded
Next ==
    \/ \E e \in Engines :
        \/ UpdateInfo(e, {FALSE}, {FullDirInfo})
        \/ PreProcess(e, CheckPasses \cup CheckFails)
        \/ RunCommand(e, {<<"l", "s">>}, {DEV_NULL}, {None}, {0, KILLED}, Silent)
        \/ RunAnalysis(e, CheckPasses \cup CheckFails, {0}, Silent)
        \/ ProcessStatus(e)
        \/ PostProcess(e)
        \/ SaveArtifacts(e, {d \in SaveInfos : d.results # <<>>})
        \/ CleanUp(e)
    \/ Return
Spec == InitDefault /\ [][Next]_vars

\* the directory descriptor: one engine in both modes, with descriptors that are
\* fully populated and descriptors that lack one key, or one mode
NextDirs ==
    \/ UpdateInfo(1, BOOLEAN, DirInfos)
    \/ Return
SpecDirs == InitDefault /\ [][NextDirs]_vars

\* the Statistics records: both engines, with update_info calls that return and
\* calls that fail, and analyses that write into the record the engine holds
NextStats ==
    \/ \E e \in Engines :
        \/ UpdateInfo(e, {FALSE}, FullOrContainerOnly)
        \/ AnalyseOutput(e)
    \/ Return
SpecStats == InitDefault /\ [][NextStats]_vars

\* the output log: both engines in both modes, with every content of the logs
\* directory and of one subdirectory
NextLog ==
    \/ \E e \in Engines :
        \/ UpdateInfo(e, {FALSE}, {FullDirInfo})
        \/ GetOutputLogPath(e, Walks)
    \/ Return
SpecLog == InitDefault /\ [][NextLog]_vars

\* one invocation cycle after the other on each engine, the hooks called in the
\* documented order, in both modes and with both values of values.is_purge
NextCycle ==
    \/ \E e \in Engines :
        \/ UpdateInfo(e, {FALSE}, {FullDirInfo})
        \/ PreProcess(e, CheckPasses \cup CheckFails)
        \/ RunCommand(e, {<<"l", "s">>}, {DEV_NULL}, {None}, {0, KILLED}, Silent)
        \/ ProcessStatus(e)
        \/ PostProcess(e)
        \/ SaveArtifacts(e, {d \in SaveInfos : d.results # <<>>})
        \/ CleanUp(e)
    \/ Return
InitCycle ==
    /\ Init
    /\ tool[1].image_name = CerberusImage(ToolName(1))
    /\ tool[2].image_name = <<>>
    /\ \A e \in Engines : cycle[e] = "start"
SpecCycle == InitCycle /\ [][NextCycle]_vars

----------------------------------------------------------------------------
(* Properties *)

InContainer(e) == tool[e].container_id # None

Content(fsys, key) == IF key \in DOMAIN fsys THEN fsys[key] ELSE <<>>

FnsOf(calls) == {calls[i].fn : i \in 1..Len(calls)}

\* the engine has been through an update_info that returned
Updated(e) == tool[e].dir_base_expr # <<>>

\* C1: process_status(137) in container mode makes exactly two container calls,
\* stop_container then start_container, both on the engine's own container;
\* with any other exit code, and with every exit code in local mode, it makes
\* no call at all
C1_RestartOnlyOnKill ==
    last.op = "process_status" =>
        LET cid == tool[last.eng].container_id IN
        IF last.status = KILLED /\ InContainer(last.eng)
        THEN /\ Len(last.calls) = 2
             /\ last.calls[1] = stop_container(cid)
             /\ last.calls[2] = start_container(cid)
             /\ cid = ContainerOf(last.eng)
        ELSE Len(last.calls) = 0

\* a killed command in container mode has been classified and the container
\* restarted
C1_Witness ==
    /\ last.op = "process_status"
    /\ last.status = KILLED
    /\ InContainer(last.eng)
    /\ Len(last.calls) = 2
    /\ lifecycle[tool[last.eng].container_id] = "start_container"

\* C2: in container mode no append_file call is made by a run_command whose log
\* path is the default discard path, nor by run_analysis, which passes its own
\* discard path when it creates the output directory
C2_DiscardNeverWrites ==
    /\ (/\ last.op = "run_command"
        /\ InContainer(last.eng)
        /\ last.args.log_file_path = DEV_NULL)
       => "append_file" \notin FnsOf(last.calls)
    /\ (last.op = "run_analysis" /\ InContainer(last.eng))
       => "append_file" \notin FnsOf(last.calls)

\* one run_command step in local mode: a single execute_command call, after
\* which the file the log path names holds what it held before followed by what
\* the command printed, and every other file holds what it held before
C3_Step ==
    (last'.op = "run_command" /\ ~InContainer(last'.eng)) =>
        LET self == tool[last'.eng]
            a    == last'.args
            dir  == IF Truthy(a.dir_path) THEN a.dir_path ELSE self.dir_expr
            path == Resolve(dir, a.log_file_path)
            key  == FileKey(None, path)
            out  == last'.ans.stdout \o last'.ans.stderr
        IN  /\ Len(last'.calls) = 1
            /\ last'.calls[1].fn = "execute_command"
            /\ path # DEV_NULL =>
                   Content(files', key) = Content(files, key) \o out
            /\ \A k \in (DOMAIN files \cup DOMAIN files') \ {key} :
                   Content(files', k) = Content(files, k)

\* C3: every run_command in local mode appends the command's output to the log
\* file exactly once and removes nothing from it, so the file holds its initial
\* content followed by the outputs of the calls in call order
C3_LocalAppendsOnce == [][C3_Step]_vars

\* two local commands with the same output have run with the same log file,
\* which holds the earlier transcript and two copies of the output
C3_Witness ==
    /\ last.op = "run_command"
    /\ ~InContainer(last.eng)
    /\ last.args.log_file_path = LOG
    /\ last.ans.stdout = <<104>>
    /\ last.ans.stderr = <<>>
    /\ Content(files, FileKey(None, LOG)) = PRIOR \o <<104>> \o <<104>>

\* the image provisioning check ran: container mode, and the image was looked up
Provisioned ==
    /\ last.op = "pre_process"
    /\ values.use_container
    /\ Len(last.calls) >= 2
    /\ last.calls[1].fn = "image_exists"

Pulled == last.calls[Len(last.calls)].image

\* the state after one provisioning check: absent and pulled leaves the flag as
\* it was, present and pulled with another identity leaves it set
C4_Check ==
    Provisioned =>
        /\ (~last.calls[1].found /\ Pulled # NoImage)
           => (last.outcome = "ok" /\ values.rebuild_all = last.rebuild_before)
        /\ (last.calls[1].found /\ Pulled # NoImage
            /\ Pulled # last.calls[2].image)
           => (last.outcome = "ok" /\ values.rebuild_all)

\* C4: a check that finds no local image and pulls one completes and leaves the
\* rebuild flag as it was; a check that finds a local image and pulls one with
\* another identity completes with the flag set; no step of any engine takes
\* the flag from true to false
C4_RebuildFlag ==
    [](C4_Check) /\ [][values.rebuild_all => values'.rebuild_all]_vars

\* after the flag was set, another engine's check found no local image, pulled
\* one, and the flag is still set
C4_Witness ==
    /\ Provisioned
    /\ last.rebuild_before
    /\ ~last.calls[1].found
    /\ Pulled # NoImage
    /\ last.outcome = "ok"
    /\ values.rebuild_all

\* C5: a check of an engine with no image reference (None, or the empty
\* reference an engine holds when nothing assigned one) ends fatally and makes
\* no call to the container runtime
C5_NoImageIsFatal ==
    (/\ last.op = "pre_process"
     /\ values.use_container
     /\ tool[last.eng].image_name \in {None, <<>>})
    => (last.outcome = "fatal" /\ Len(last.calls) = 0)

\* C6: a check that finds no local image and whose pull fails ends fatally and
\* leaves the rebuild flag as it was
C6_PullFailureIsFatal ==
    (Provisioned /\ ~last.calls[1].found /\ Pulled = NoImage)
    => (last.outcome = "fatal" /\ values.rebuild_all = last.rebuild_before)

\* the pull of an absent image failed while the flag was set
C6_Witness ==
    /\ Provisioned
    /\ ~last.calls[1].found
    /\ Pulled = NoImage
    /\ last.rebuild_before
    /\ last.outcome = "fatal"

\* C7: a check that finds a local image and whose pull fails, or returns the
\* identity of the local image, completes and leaves the rebuild flag as it was
C7_OfflineTolerant ==
    (/\ Provisioned
     /\ last.calls[1].found
     /\ (Pulled = NoImage \/ Pulled = last.calls[2].image))
    => (last.outcome = "ok" /\ values.rebuild_all = last.rebuild_before)

\* the registry was unreachable for an image found locally, the flag not set
C7_Witness ==
    /\ Provisioned
    /\ last.calls[1].found
    /\ Pulled = NoImage
    /\ last.outcome = "ok"
    /\ ~values.rebuild_all

\* C8: after update_info every operation follows the mode the container
\* identifier gives: pre_process looks the image up with a container identifier
\* and looks the executable up without one; run_command, post_process and
\* save_artifacts call the container runtime with one and the host without one
C8_OneMode ==
    (~Idle /\ Updated(last.eng)) =>
        /\ last.op = "pre_process" =>
               /\ Len(last.calls) >= 1
               /\ (last.calls[1].fn = "image_exists") = InContainer(last.eng)
               /\ (last.calls[1].fn = "which") = ~InContainer(last.eng)
        /\ last.op = "run_command" =>
               FnsOf(last.calls) \subseteq
                   (IF InContainer(last.eng) THEN {"exec_command", "append_file"}
                    ELSE {"execute_command"})
        /\ last.op = "post_process" =>
               ("stop_container" \in FnsOf(last.calls)) = InContainer(last.eng)
        /\ last.op = "save_artifacts" =>
               FnsOf(last.calls) =
                   (IF InContainer(last.eng) THEN {"copy_file_from_container"}
                    ELSE {"execute_command"})

\* C9: save_artifacts of an engine update_info has set up, with an empty logs target, makes no copy whose destination
\* is the logs target
C9_NoCopyToEmptyLogs ==
    (last.op = "save_artifacts" /\ Updated(last.eng) /\ last.args.logs = <<>>)
    => \A i \in 1..Len(Copies(last.calls)) : Copies(last.calls)[i].arg # "logs"

\* C10: save_artifacts of an engine update_info has set up in local mode copies to a target if and only if the
\* target is given, and with all three given it copies the output and the logs
\* directory to results, the output directory to artifacts and the logs
\* directory to logs
C10_LocalGuards ==
    (last.op = "save_artifacts" /\ Updated(last.eng) /\ ~InContainer(last.eng)) =>
        LET cps  == Copies(last.calls)
            self == tool[last.eng]
            d    == last.args
        IN  /\ \A t \in {"results", "artifacts", "logs"} :
                   (\E i \in 1..Len(cps) : cps[i].arg = t) <=> d[t] # <<>>
            /\ (\A t \in {"results", "artifacts", "logs"} : d[t] # <<>>) =>
                   cps = << Copy(self.dir_output, d.results, "results"),
                            Copy(self.dir_logs, d.results, "results"),
                            Copy(self.dir_output, d.artifacts, "artifacts"),
                            Copy(self.dir_logs, d.logs, "logs") >>

\* the calls that remove the engine's container or delete its experiment
\* directory
Removals(calls) ==
    {i \in 1..Len(calls) : calls[i].fn = "remove_container"
                            \/ "rm" \in DOMAIN calls[i]}

\* the hooks of a cycle that come before save_artifacts has made its copies
BeforeSave ==
    {"update_info", "pre_process", "run_command", "process_status",
     "post_process"}

\* C11: in a cycle whose hooks are called in the documented order, no hook that
\* comes before save_artifacts removes the container (container mode) or deletes
\* the experiment directory (local mode), whatever values.is_purge is
C11_CleanUpComesLast ==
    (~Idle /\ cycle[last.eng] \in BeforeSave) => Removals(last.calls) = {}

\* the mode an update_info call with this container identifier selects
ModeOf(cid) == IF Truthy(cid) THEN "container" ELSE "local"
OtherMode(m) == IF m = "container" THEN "local" ELSE "container"

\* both mode keys are there, each with the five keys
FullyPopulated(d) ==
    \A m \in Modes :
        m \in DOMAIN d /\ \A i \in 1..Len(DirKeys) : DirKeys[i] \in DOMAIN d[m]

\* C12: update_dir_info, given a descriptor with both mode keys fully populated,
\* sets each of the five working directories to the value under the active
\* mode's key, none to the value under the other mode's key, and the base path
\* to "/experiment" in container mode and to values.dir_experiments in local mode
C12_DirsOfActiveMode ==
    (last.op = "update_info" /\ FullyPopulated(last.args.dir_info)) =>
        LET d == last.args.dir_info
            m == ModeOf(last.args.container_id)
            t == tool[last.eng]
        IN  /\ last.outcome = "ok"
            /\ \A i \in 1..Len(DirKeys) :
                   /\ t[DirFields[i]] = d[m][DirKeys[i]]
                   /\ t[DirFields[i]] # d[OtherMode(m)][DirKeys[i]]
            /\ t.dir_base_expr = IF m = "container" THEN EXPERIMENT
                                                     ELSE DIR_EXPERIMENTS

\* an update_info in local mode has taken the local values of the descriptor whose
\* values are exchanged, and the configured base path
C12_Witness ==
    /\ last.op = "update_info"
    /\ last.args.dir_info = SwappedDirInfo
    /\ last.args.container_id = None
    /\ tool[last.eng].dir_expr = SwappedDirInfo.local.experiment
    /\ tool[last.eng].dir_base_expr = DIR_EXPERIMENTS

\* C13: after an update_info call that returns, the engine holds a Statistics
\* record that is zero-valued and is not the record it held before the call, nor
\* one anything else refers to; what an analysis wrote into the earlier record
\* is not in it
C13_FreshStats ==
    (last.op = "update_info" /\ last.outcome = "ok") =>
        LET made == tool[last.eng].stats IN
        /\ made # last.held.ref
        /\ made # ClassStats
        /\ \A e \in Engines \ {last.eng} : tool[e].stats # made
        /\ heap[made] = ZeroStats

\* an engine whose own record an analysis had written into has been through
\* update_info
C13_Witness ==
    /\ last.op = "update_info"
    /\ last.outcome = "ok"
    /\ last.held.ref # ClassStats
    /\ last.held.content = SomeStats
    /\ heap[tool[last.eng].stats] = ZeroStats

\* C16: two engines never hold the same Statistics record, from construction
\* onwards: the record an analysis has written into through one engine is not
\* the record the other engine holds
C16_OwnStats ==
    last.op = "analyse_output" =>
        \A e \in Engines \ {last.eng} : tool[e].stats # last.ret

\* the name ends in "-output.log"
EndsWithOutputLog(file) ==
    /\ Len(file) >= Len(OUTPUT_LOG)
    /\ SubSeq(file, Len(file) - Len(OUTPUT_LOG) + 1, Len(file)) = OUTPUT_LOG

\* where the files of a walk are whose name ends in "-output.log" and contains
\* the tool's name
Locations(self, walk) ==
    {Join(Join(self.dir_logs, walk[i].sub), walk[i].files[j]) :
        <<i, j>> \in {p \in (1..Len(walk)) \X (1..2) :
                        /\ p[2] <= Len(walk[p[1]].files)
                        /\ EndsWithOutputLog(walk[p[1]].files[p[2]])
                        /\ Contains(self.name, walk[p[1]].files[p[2]])}}

\* C14: get_output_log_path with no path cached returns the location of a file
\* of the logs directory, or of a subdirectory of it, whose name ends in
\* "-output.log" and contains the tool's name, and the empty path when there is
\* no such file; with a path cached it returns that path and does not scan
C14_PathOfTheLog ==
    (last.op = "get_output_log_path" /\ Updated(last.eng)) =>
        IF last.cached = <<>>
        THEN LET found == Locations(tool[last.eng], last.walk) IN
             IF found = {} THEN last.ret = <<>> ELSE last.ret \in found
        ELSE last.ret = last.cached /\ ~last.scanned

\* the keys update_dir_info reads that descriptor d lacks under mode m
MissingKeys(d, m) ==
    IF m \notin DOMAIN d THEN 1..Len(DirKeys)
    ELSE {i \in 1..Len(DirKeys) : DirKeys[i] \notin DOMAIN d[m]}

\* one update_info step: it fails exactly when a key is missing under the active
\* mode, and then the directory of a missing key is left as it was
C15_Step ==
    (Idle /\ last'.op = "update_info") =>
        LET e == last'.eng
            missing == MissingKeys(last'.args.dir_info,
                                   ModeOf(last'.args.container_id))
        IN  IF missing = {}
            THEN last'.outcome = "ok"
            ELSE /\ last'.outcome = "KeyError"
                 /\ \A i \in missing :
                        tool'[e][DirFields[i]] = tool[e][DirFields[i]]

\* C15: update_dir_info fails with an error whenever one of the five keys is
\* absent under the active mode's key, without completing and without putting a
\* default in the place of the absent value; keys absent under the other mode's
\* key never make it fail
C15_MissingKeyFails == [][C15_Step]_vars

\* a call in container mode with a descriptor that lacks the setup directory
\* under "container" has failed
C15_Witness ==
    /\ last.op = "update_info"
    /\ last.args.container_id = ContainerOf(last.eng)
    /\ last.args.dir_info = Without(FullDirInfo, "container", "setup")
    /\ last.outcome = "KeyError"

\* one run_command step in container mode with a log path other than the
\* sentinel: the log file of the container holds what it held before, followed by
\* the decoded stdout and then the decoded stderr when the command returned an
\* output pair, and every other file holds what it held before
C17_Step ==
    (/\ last'.op = "run_command"
     /\ InContainer(last'.eng)
     /\ last'.args.log_file_path # DEV_NULL) =>
        LET cid   == tool[last'.eng].container_id
            key   == FileKey(cid, last'.args.log_file_path)
            added == IF last'.ans.has_output
                     THEN DecodeLatin1(last'.ans.stdout)
                          \o DecodeLatin1(last'.ans.stderr)
                     ELSE <<>>
        IN  /\ Content(files', key) = Content(files, key) \o added
            /\ \A k \in (DOMAIN files \cup DOMAIN files') \ {key} :
                   Content(files', k) = Content(files, k)

\* C17: run_command in container mode with a log path that is not the discard
\* sentinel leaves the log file equal to its prior content followed by the
\* decoded stdout and then the decoded stderr; an empty stream adds nothing,
\* nothing is removed, and a command without an output pair writes nothing
C17_ContainerAppends == [][C17_Step]_vars

\* the places in a sequence of calls where fn is called on container cid
CallsOn(calls, fn, cid) ==
    {i \in 1..Len(calls) : calls[i].fn = fn /\ calls[i].cid = cid}

\* C18: in container mode, whatever process_status did to the container before,
\* post_process stops the engine's container and starts it no more; it removes
\* the container exactly when values.is_purge is on, and after the stop
C18_StoppedAtTheEnd ==
    (last.op = "post_process" /\ InContainer(last.eng)) =>
        LET cid     == tool[last.eng].container_id
            stops   == CallsOn(last.calls, "stop_container", cid)
            removes == CallsOn(last.calls, "remove_container", cid)
        IN  /\ stops # {}
            /\ "start_container" \notin FnsOf(last.calls)
            /\ removes # {} <=> values.is_purge
            /\ \A r \in removes : \E i \in stops : i < r
            /\ lifecycle[cid] = IF values.is_purge THEN "remove_container"
                                                    ELSE "stop_container"

\* a container that process_status had restarted after a 137 has been stopped
\* and removed by post_process, the purge setting being on
C18_Witness ==
    /\ last.op = "post_process"
    /\ InContainer(last.eng)
    /\ values.is_purge
    /\ last.was[tool[last.eng].container_id] = "start_container"
    /\ lifecycle[tool[last.eng].container_id] = "remove_container"

\* what update_info assigns: the container identifier, the instrumentation-only
\* flag, the five working directories, the base path and the Statistics record
UpdateInfoFields ==
    {"container_id", "is_instrument_only", "dir_base_expr", "stats"}
    \cup {DirFields[i] : i \in 1..Len(DirFields)}

\* one update_info step that fails leaves every attribute it assigns, and the
\* content of the Statistics record, as they were
C19_Step ==
    (Idle /\ last'.op = "update_info" /\ last'.outcome = "KeyError") =>
        /\ \A f \in UpdateInfoFields : tool'[last'.eng][f] = tool[last'.eng][f]
        /\ heap' = heap

\* C19: update_info is all-or-nothing: when it fails for a key the descriptor
\* lacks under the active mode, the container identifier, the
\* instrumentation-only flag, the five working directories, the base path and
\* the Statistics record are what they were before the call
C19_AllOrNothing == [][C19_Step]_vars

====
